---- MODULE Spec2Model ----
(***************************************************************************)
(* Model of the semantic document index of the Business Transcript         *)
(* Analyzer (src/src/embedding_store.py): one EmbeddingStore process, the  *)
(* two files it persists (index.faiss and metadata.pkl), and the calls     *)
(* made on it (construction, load_index, add_document, search); and of    *)
(* the trend analysis (src/src/trends.py) over the insight records that   *)
(* extraction (src/src/analysis.py) stores, under SpecTrends; of the       *)
(* trend functions applied to any list of records, under SpecRecords; of  *)
(* the upload page (src/main.py page_upload with src/src/ingestion.py),   *)
(* under SpecUpload; and of two threads calling the module-level          *)
(* add_document on the shared store, under SpecThreads.                    *)
(*                                                                         *)
(* Representation choices:                                                 *)
(*  - a text is a run-length encoded string, a sequence of runs            *)
(*    [ch, n]; slicing text[:N] is computed exactly on that encoding, so   *)
(*    the source's 500 and 8000 character cuts keep their real values;     *)
(*  - a vector is represented by its first NCoord coordinates (all other   *)
(*    coordinates are zero); the index carries its dimension d explicitly; *)
(*  - a file is [st, ...] with st "absent", "corrupt" (present but         *)
(*    unreadable, e.g. partially written) or "ok";                         *)
(*  - a float score 1/(1+distance) is the exact fraction [num, den].       *)
(***************************************************************************)
EXTENDS Integers, Sequences, FiniteSets, TLC

\* ------------------------------------------------------------------ bounds
MaxAdds == 3   \* add_document calls (successful, failed or interrupted) per behaviour
MaxK == 2      \* largest k passed to search

\* --------------------------------------------------------------- constants
OpenAIDimension == 1536
LocalDimension == 384
OpenAITextLimit == 8000
PreviewLength == 500
FLT_MAX == 1000000

Providers == {"openai", "local"}
Chars == <<"a", "b">>
NCoord == Len(Chars)

\* ------------------------------------------------------------------- texts
Run(c, n) == [ch |-> c, n |-> n]

TextA == <<Run("a", 600)>>
TextAB == <<Run("a", 8000), Run("b", 10)>>
Texts == {TextA, TextAB}

\* the transcripts that get uploaded: (filename, extracted text)
Documents ==
  {[filename |-> "q1.txt", text |-> TextA], [filename |-> "q2.txt", text |-> TextAB]}

RECURSIVE Take(_, _)
\* Python's text[:n] on a run-length encoded string
Take(text, n) ==
  IF n <= 0 \/ text = <<>> THEN <<>>
  ELSE IF Head(text).n <= n
       THEN <<Head(text)>> \o Take(Tail(text), n - Head(text).n)
       ELSE <<Run(Head(text).ch, n)>>

RECURSIVE Str(_)
\* Python's str(n) for n >= 0, as the sequence of its decimal digits
Str(n) == IF n < 10 THEN <<n>> ELSE Str(n \div 10) \o <<n % 10>>

RECURSIVE ParseInt(_)
\* int(s) for a sequence of decimal digits
ParseInt(s) ==
  IF s = <<>> THEN 0 ELSE 10 * ParseInt(SubSeq(s, 1, Len(s) - 1)) + s[Len(s)]

\* -------------------------------------------------------------- embeddings
\* The embedding model is an external deterministic function of the text it
\* is handed; here coordinate i tells whether character Chars[i] occurs.
Encode(text) ==
  [i \in 1..NCoord |-> IF \E j \in 1..Len(text) : text[j].ch = Chars[i] THEN 1 ELSE 0]

Dimension(p) == IF p = "openai" THEN OpenAIDimension ELSE LocalDimension

GenerateEmbedding(p, text) ==
  IF p = "openai" THEN Encode(Take(text, OpenAITextLimit)) ELSE Encode(text)

\* ------------------------------------------------------------ index, files
NoIndex == [d |-> 0, vecs |-> <<>>]
NewIndex(d) == [d |-> d, vecs |-> <<>>]
AbsentIndexFile == [st |-> "absent", d |-> 0, vecs |-> <<>>]
CorruptIndexFile == [st |-> "corrupt", d |-> 0, vecs |-> <<>>]
WrittenIndexFile(idx) == [st |-> "ok", d |-> idx.d, vecs |-> idx.vecs]
AbsentMetaFile == [st |-> "absent", data |-> <<>>]
CorruptMetaFile == [st |-> "corrupt", data |-> <<>>]
WrittenMetaFile(md) == [st |-> "ok", data |-> md]

VARIABLES
  running,    \* TRUE while the process holding the store is alive
  provider,   \* config.EMBEDDING_PROVIDER of the running process
  dimension,  \* self.dimension
  index,      \* self.index: [d, vecs]
  metadata,   \* self.metadata
  idxFile,    \* config.FAISS_INDEX_PATH
  metaFile,   \* config.FAISS_METADATA_PATH
  clock,      \* number of add_document calls so far; source of upload_date
  lastOp,     \* the last call and how it ended
  results,    \* the list returned by the last search
  rt,         \* progress of an add / save / reload / search round trip
  insights,   \* the insight records of config.INSIGHTS_DIR, in listing order
  out,        \* the last trends.py call: [fn, arg, ret]
  transcripts,  \* the files of config.TRANSCRIPTS_DIR: [filename, content]
  upload,       \* the last run of the upload page and how it ended
  instance,     \* the module global _store_instance: 0 for None, or a store
  stores,       \* the EmbeddingStore objects constructed by initialize_store
  callers       \* the threads calling the module-level add_document

vars == <<running, provider, dimension, index, metadata, idxFile, metaFile,
          clock, lastOp, results, rt, insights, out,
          transcripts, upload, instance, stores, callers>>

storeVars == <<running, provider, dimension, index, metadata, idxFile, metaFile,
               clock, lastOp, results, rt>>

Op(op, raised, ret, embedFailed, save, mismatch) ==
  [op |-> op, raised |-> raised, ret |-> ret, embedFailed |-> embedFailed,
   save |-> save, mismatch |-> mismatch]

NoTrip == [stage |-> "none", date |-> 0, text |-> <<>>]

NoCall == [fn |-> "none", arg |-> 0, ret |-> <<>>]

appVars == <<transcripts, upload, instance, stores, callers>>

NoUpload ==
  [filename |-> "", content |-> <<>>, success |-> FALSE, is_duplicate |-> FALSE,
   duplicate_file |-> "", insights_saved |-> FALSE, indexed |-> FALSE]

\* a thread that has not called yet
Idle == [pc |-> "idle", seen |-> 0, made |-> 0, store |-> 0, doc_id |-> 0, calls |-> 0]

CallerIds == {1, 2}

\* ---------------------------------------------------------------- load_index
\* _create_new_index
CreateNewIndex(d) == [index |-> NewIndex(d), metadata |-> <<>>, mismatch |-> FALSE, raised |-> FALSE]

\* variant: a failing pickle.load keeps the index that was just read
LoadIndexResult_KeepIndex(iF, mF, d) ==
  IF iF.st # "absent" /\ mF.st # "absent"
  THEN IF iF.st = "corrupt"
       THEN CreateNewIndex(d)
       ELSE IF iF.d # d
            THEN [CreateNewIndex(d) EXCEPT !.mismatch = TRUE]
            ELSE IF mF.st = "corrupt"
                 THEN [index |-> [d |-> iF.d, vecs |-> iF.vecs],
                       metadata |-> <<>>, mismatch |-> FALSE, raised |-> FALSE]
                 ELSE [index |-> [d |-> iF.d, vecs |-> iF.vecs],
                       metadata |-> mF.data, mismatch |-> FALSE, raised |-> FALSE]
  ELSE CreateNewIndex(d)

\* load_index: the in-memory state it leaves, given the two files
LoadIndexResult(iF, mF, d) ==
  IF iF.st # "absent" /\ mF.st # "absent"
  THEN IF iF.st = "corrupt"
       THEN CreateNewIndex(d)                       \* read_index raises
       ELSE IF iF.d # d
            THEN [CreateNewIndex(d) EXCEPT !.mismatch = TRUE]
            ELSE IF mF.st = "corrupt"
                 THEN CreateNewIndex(d)             \* pickle.load raises
                 ELSE [index |-> [d |-> iF.d, vecs |-> iF.vecs],
                       metadata |-> mF.data, mismatch |-> FALSE, raised |-> FALSE]
  ELSE CreateNewIndex(d)

Init ==
  /\ running = TRUE
  /\ provider \in Providers
  /\ dimension = Dimension(provider)
  /\ idxFile = AbsentIndexFile
  /\ metaFile = AbsentMetaFile
  /\ index = LoadIndexResult(idxFile, metaFile, dimension).index
  /\ metadata = LoadIndexResult(idxFile, metaFile, dimension).metadata
  /\ clock = 0
  /\ lastOp = Op("construct", FALSE, <<>>, FALSE, "none", FALSE)
  /\ results = <<>>
  /\ rt = NoTrip
  /\ insights = <<>>
  /\ out = NoCall
  /\ transcripts = {}
  /\ upload = NoUpload
  /\ instance = 0
  /\ stores = <<>>
  /\ callers = [t \in CallerIds |-> Idle]

\* EmbeddingStore.__init__ in a new process configured with provider p
Construct(p) ==
  LET r == LoadIndexResult(idxFile, metaFile, Dimension(p)) IN
  /\ running' = TRUE
  /\ provider' = p
  /\ dimension' = Dimension(p)
  /\ index' = r.index
  /\ metadata' = r.metadata
  /\ lastOp' = Op("construct", r.raised, <<>>, FALSE, "none", r.mismatch)
  /\ results' = <<>>
  /\ rt' = IF rt.stage = "added" /\ running /\ p = provider
           THEN [rt EXCEPT !.stage = "reloaded"] ELSE NoTrip
  /\ UNCHANGED <<idxFile, metaFile, clock, insights, out, appVars>>

\* load_index called again on the running store
LoadIndex ==
  LET r == LoadIndexResult(idxFile, metaFile, dimension) IN
  /\ running
  /\ index' = r.index
  /\ metadata' = r.metadata
  /\ lastOp' = Op("load", r.raised, <<>>, FALSE, "none", r.mismatch)
  /\ results' = <<>>
  /\ rt' = NoTrip
  /\ UNCHANGED <<running, provider, dimension, idxFile, metaFile, clock, insights, out, appVars>>

\* ------------------------------------------------------------- add_document
SaveOutcomes ==
  {"ok", "index_fail_untouched", "index_fail_corrupt", "meta_fail_untouched", "meta_fail_corrupt"}

\* save_index: faiss.write_index, then open(..., 'wb') and pickle.dump; any
\* exception is caught and printed.  w says how the two writes went.
SaveIndex(idx, md, iF, mF, w) ==
  [idxFile |-> CASE w = "index_fail_untouched" -> iF
                 [] w = "index_fail_corrupt" -> CorruptIndexFile
                 [] OTHER -> WrittenIndexFile(idx),
   metaFile |-> CASE w = "ok" -> WrittenMetaFile(md)
                  [] w = "meta_fail_corrupt" -> CorruptMetaFile
                  [] OTHER -> mF,
   raised |-> FALSE]

\* variant: the id is taken after the append
NewDocId_AfterAppend(md) == Len(md) + 1

\* doc_id = len(self.metadata)
NewDocId(md) == Len(md)

\* the caller's metadata dict after lines 148-149.  embedded_dim is not a
\* key of the program's dict: it records the dimension of the vector that
\* was computed for the entry, to tell the entries of a discarded index.
Entry(meta, docId, text, d) ==
  [filename |-> meta.filename, upload_date |-> meta.upload_date,
   doc_id |-> docId, text_preview |-> Take(text, PreviewLength),
   embedded_dim |-> d]

\* variant: the metadata entry is appended before the embedding is requested
AddInMemory_AppendFirst(idx, md, p, text, meta, embedOk) ==
  LET docId == Len(md) IN
  IF ~embedOk
  THEN [index |-> idx, metadata |-> Append(md, [filename |-> meta.filename,
          upload_date |-> meta.upload_date, doc_id |-> docId,
          text_preview |-> Take(text, PreviewLength),
          embedded_dim |-> Dimension(p)]),
        raised |-> TRUE, doc_id |-> -1]
  ELSE [index |-> [idx EXCEPT !.vecs = Append(@, GenerateEmbedding(p, text))],
        metadata |-> Append(md, [filename |-> meta.filename,
          upload_date |-> meta.upload_date, doc_id |-> docId,
          text_preview |-> Take(text, PreviewLength),
          embedded_dim |-> Dimension(p)]),
        raised |-> FALSE, doc_id |-> docId]

\* lines 141-150: embedding, index.add, metadata.append
AddInMemory(idx, md, p, text, meta, embedOk) ==
  IF ~embedOk
  THEN [index |-> idx, metadata |-> md, raised |-> TRUE, doc_id |-> -1]
  ELSE LET docId == NewDocId(md) IN
       [index |-> [idx EXCEPT !.vecs = Append(@, GenerateEmbedding(p, text))],
        metadata |-> Append(md, Entry(meta, docId, text, Dimension(p))),
        raised |-> FALSE, doc_id |-> docId]

\* add_document, run to its return or raise
AddDocument(text, fname, embedOk, w) ==
  LET meta == [filename |-> fname, upload_date |-> clock + 1]
      a == AddInMemory(index, metadata, provider, text, meta, embedOk)
      s == IF a.raised THEN [idxFile |-> idxFile, metaFile |-> metaFile, raised |-> TRUE]
           ELSE SaveIndex(a.index, a.metadata, idxFile, metaFile, w)
  IN
  /\ running
  /\ clock < MaxAdds
  /\ embedOk \/ w = "ok"
  /\ index' = a.index
  /\ metadata' = a.metadata
  /\ idxFile' = s.idxFile
  /\ metaFile' = s.metaFile
  /\ clock' = clock + 1
  /\ lastOp' = Op("add", a.raised \/ s.raised,
                  IF a.raised \/ s.raised THEN <<>> ELSE Str(a.doc_id),
                  ~embedOk, IF a.raised THEN "none" ELSE w, FALSE)
  /\ results' = <<>>
  /\ rt' = IF ~a.raised /\ ~s.raised /\ w = "ok"
           THEN [stage |-> "added", date |-> clock + 1, text |-> text] ELSE NoTrip
  /\ UNCHANGED <<running, provider, dimension, insights, out, appVars>>

CrashPoints == {"before_save", "during_index_write", "between_writes", "during_meta_write"}

\* what the two files hold when the process stops at the given point of save_index
InterruptedSave(idx, md, iF, mF, point) ==
  [idxFile |-> CASE point = "before_save" -> iF
                 [] point = "during_index_write" -> CorruptIndexFile
                 [] OTHER -> WrittenIndexFile(idx),
   metaFile |-> IF point = "during_meta_write" THEN CorruptMetaFile ELSE mF]

\* the process stops inside add_document, after the in-memory appends
AddDocumentCrash(text, fname, point) ==
  LET meta == [filename |-> fname, upload_date |-> clock + 1]
      a == AddInMemory(index, metadata, provider, text, meta, TRUE)
      s == InterruptedSave(a.index, a.metadata, idxFile, metaFile, point)
  IN
  /\ running
  /\ clock < MaxAdds
  /\ running' = FALSE
  /\ index' = NoIndex
  /\ metadata' = <<>>
  /\ idxFile' = s.idxFile
  /\ metaFile' = s.metaFile
  /\ clock' = clock + 1
  /\ lastOp' = Op("crash", FALSE, <<>>, FALSE, point, FALSE)
  /\ results' = <<>>
  /\ rt' = NoTrip
  /\ UNCHANGED <<provider, dimension, insights, out, appVars>>

\* ------------------------------------------------------------------- search
Min(a, b) == IF a < b THEN a ELSE b

RECURSIVE SumSq(_, _, _)
SumSq(u, v, i) == IF i = 0 THEN 0 ELSE (u[i] - v[i]) * (u[i] - v[i]) + SumSq(u, v, i - 1)

\* squared Euclidean distance (IndexFlatL2)
L2Sqr(u, v) == SumSq(u, v, NCoord)

\* index.search(q, k): every answer the library may give.  The first
\* min(k, ntotal) labels are distinct stored positions in non-decreasing
\* distance, none farther than a position left out; the order among equal
\* distances is the library's choice.  Missing neighbours are label -1 at
\* distance FLT_MAX.
FaissSearch(idx, q, k) ==
  LET n == Len(idx.vecs)
      m == Min(k, n)
      dist == SubSeq([pos \in 1..n |-> L2Sqr(q, idx.vecs[pos])], 1, n)
      D(pos) == dist[pos + 1]
      Hits == {s \in [1..m -> 0..(n - 1)] :
                 /\ \A i, j \in 1..m : i < j => s[i] # s[j] /\ D(s[i]) <= D(s[j])
                 /\ \A o \in 0..(n - 1) :
                      (\A i \in 1..m : s[i] # o) => \A i \in 1..m : D(s[i]) <= D(o)}
  IN {[i \in 1..k |-> IF i <= m THEN [distance |-> D(s[i]), idx |-> s[i]]
                      ELSE [distance |-> FLT_MAX, idx |-> -1]] : s \in Hits}

\* float(1 / (1 + distance)) on a float32 distance: FLT_MAX absorbs the 1
Score(distance) ==
  [num |-> 1, den |-> IF distance = FLT_MAX THEN FLT_MAX ELSE 1 + distance]

\* self.metadata[idx] with Python's negative indexing
MetaAt(md, idx) == IF idx < 0 THEN md[Len(md) + idx + 1] ELSE md[idx + 1]

\* lines 187-196: the result list compiled from one library answer
CompileResults(md, hits) ==
  LET ranked == [i \in 1..Len(hits) |-> [rank |-> i, distance |-> hits[i].distance, idx |-> hits[i].idx]]
      kept == SelectSeq(ranked, LAMBDA h : h.idx < Len(md))
  IN [j \in 1..Len(kept) |->
        [rank |-> kept[j].rank, score |-> Score(kept[j].distance), distance |-> kept[j].distance,
         filename |-> MetaAt(md, kept[j].idx).filename,
         upload_date |-> MetaAt(md, kept[j].idx).upload_date,
         doc_id |-> MetaAt(md, kept[j].idx).doc_id,
         text_preview |-> MetaAt(md, kept[j].idx).text_preview,
         embedded_dim |-> MetaAt(md, kept[j].idx).embedded_dim]]

\* search: every (raised, results) it may end with
SearchReturn(idx, md, p, query, k, embedOk) ==
  IF Len(md) = 0 THEN {[raised |-> FALSE, results |-> <<>>]}
  ELSE IF ~embedOk THEN {[raised |-> FALSE, results |-> <<>>]}   \* except: return []
  ELSE {[raised |-> FALSE, results |-> CompileResults(md, h)] :
          h \in FaissSearch(idx, GenerateEmbedding(p, query), Min(k, Len(md)))}

Search(query, k, embedOk) ==
  /\ running
  /\ \E r \in SearchReturn(index, metadata, provider, query, k, embedOk) :
       /\ results' = r.results
       /\ lastOp' = Op("search", r.raised, <<>>, Len(metadata) # 0 /\ ~embedOk, "none", FALSE)
  /\ rt' = IF rt.stage = "reloaded" /\ query = rt.text /\ embedOk
           THEN [rt EXCEPT !.stage = "searched"] ELSE NoTrip
  /\ UNCHANGED <<running, provider, dimension, index, metadata, idxFile, metaFile, clock,
                 insights, out, appVars>>

Next ==
  \/ \E p \in Providers : Construct(p)
  \/ LoadIndex
  \/ \E doc \in Documents, embedOk \in BOOLEAN, w \in SaveOutcomes :
       AddDocument(doc.text, doc.filename, embedOk, w)
  \/ \E doc \in Documents, point \in CrashPoints :
       AddDocumentCrash(doc.text, doc.filename, point)
  \/ \E query \in Texts, k \in 1..MaxK, embedOk \in BOOLEAN : Search(query, k, embedOk)

Spec == Init /\ [][Next]_vars

\* ------------------------------------------------------- insight extraction
\* Bounds of the trend analysis specification
MaxInsights == 3    \* insight files in config.INSIGHTS_DIR
MaxThreshold == 3   \* largest threshold passed to detect_emerging_themes

TopTopicsLimit == 20
TopRisksLimit == 10
TopOpportunitiesLimit == 10
RepeatedRiskMin == 2
DefaultThreshold == 3
SummaryThreshold == 2

PyNone == "<None>"   \* Python None, JSON null

\* dict.get(key, default): the default is used only when the key is absent
Get(d, k, default) == IF k \in DOMAIN d THEN d[k] ELSE default

\* Labels are identified by naturals.  Parsed language-model responses:
\* one with a label repeated inside the record and an item without owner
\* and status, one with a null owner and a free-text status, one that fails
\* validation (an item without task), one with more labels than the top
\* lists hold.
ResponseA ==
  [summary |-> "a", sentiment |-> "positive",
   topics |-> <<1, 2, 1>>, risks |-> <<1, 2>>, opportunities |-> <<1, 1>>,
   action_items |-> <<[task |-> "t1", owner |-> "alice", deadline |-> "friday",
                       status |-> "closed"],
                      [task |-> "t2"]>>]
ResponseB ==
  [summary |-> "b", sentiment |-> "negative",
   topics |-> <<2, 3>>, risks |-> <<2, 1, 2>>, opportunities |-> <<2>>,
   action_items |-> <<[task |-> "t3", owner |-> "bob", status |-> "in progress"],
                      [task |-> "t4", owner |-> PyNone, status |-> "open"]>>]
ResponseC ==
  [summary |-> "c", sentiment |-> "neutral",
   topics |-> <<3, 2>>, risks |-> <<3>>, opportunities |-> <<>>,
   action_items |-> <<[status |-> "closed"],
                      [task |-> "t5", owner |-> "alice", status |-> "closed"]>>]
ResponseWide ==
  [summary |-> "w", sentiment |-> "neutral",
   topics |-> [i \in 1..(TopTopicsLimit + 1) |-> TopTopicsLimit + 2 - i],
   risks |-> [i \in 1..(TopRisksLimit + 1) |-> TopRisksLimit + 2 - i],
   opportunities |-> [i \in 1..(TopOpportunitiesLimit + 1) |-> i],
   action_items |-> <<>>]
Responses == {ResponseA, ResponseB, ResponseC, ResponseWide}

\* Metadata of the uploads (ingestion): filename and upload timestamp
AllUploads ==
  <<[filename |-> "m1.txt", upload_date |-> 1],
    [filename |-> "m2.txt", upload_date |-> 2],
    [filename |-> "m3.txt", upload_date |-> 2],
    [filename |-> "m4.txt", upload_date |-> 3],
    [filename |-> "m5.txt", upload_date |-> 4]>>
Uploads == {AllUploads[i] : i \in 1..Min(MaxInsights, Len(AllUploads))}

\* ActionItem: task is required, status must be a string when given
ValidActionItem(item) ==
  /\ "task" \in DOMAIN item
  /\ item.task # PyNone
  /\ Get(item, "status", "open") # PyNone

\* ActionItem(...).model_dump(): absent owner and deadline become None,
\* absent status becomes "open"
ActionItemDump(item) ==
  [task |-> item.task,
   owner |-> Get(item, "owner", PyNone),
   deadline |-> Get(item, "deadline", PyNone),
   status |-> Get(item, "status", "open")]

\* InsightSchema(**data) succeeds
ValidInsight(data) ==
  /\ "summary" \in DOMAIN data
  /\ "sentiment" \in DOMAIN data
  /\ \A i \in 1..Len(Get(data, "action_items", <<>>)) : ValidActionItem(data.action_items[i])

\* validate_json_output on a response that parses as JSON
ValidateJsonOutput(data) ==
  IF ValidInsight(data)
  THEN [summary |-> data.summary,
        topics |-> Get(data, "topics", <<>>),
        risks |-> Get(data, "risks", <<>>),
        opportunities |-> Get(data, "opportunities", <<>>),
        action_items |-> [i \in 1..Len(Get(data, "action_items", <<>>)) |->
                            ActionItemDump(data.action_items[i])],
        sentiment |-> data.sentiment]
  ELSE [summary |-> Get(data, "summary", "Error: Could not extract summary"),
        topics |-> Get(data, "topics", <<>>),
        risks |-> Get(data, "risks", <<>>),
        opportunities |-> Get(data, "opportunities", <<>>),
        action_items |-> Get(data, "action_items", <<>>),
        sentiment |-> Get(data, "sentiment", "neutral")]

\* the record extract_insights builds and saves
InsightRecord(data, meta) ==
  [filename |-> meta.filename, date |-> meta.upload_date] @@ ValidateJsonOutput(data)

\* save_insights: the file of the same name is rewritten; the directory is
\* listed in order of creation
SaveInsights(dir, rec) ==
  IF \E i \in 1..Len(dir) : dir[i].filename = rec.filename
  THEN [i \in 1..Len(dir) |-> IF dir[i].filename = rec.filename THEN rec ELSE dir[i]]
  ELSE Append(dir, rec)

\* extract_insights; llmOk is FALSE when the model call fails or its response
\* is not JSON: nothing is saved then.  New transcripts arrive in the order
\* of AllUploads; any transcript already present can be extracted again.
ExtractInsights(data, meta, llmOk) ==
  /\ \/ \E i \in 1..Len(insights) : insights[i].filename = meta.filename
     \/ Len(insights) < MaxInsights /\ meta = AllUploads[Len(insights) + 1]
  /\ insights' = IF llmOk THEN SaveInsights(insights, InsightRecord(data, meta))
                 ELSE insights
  /\ out' = NoCall
  /\ UNCHANGED <<storeVars, appVars>>

\* ------------------------------------------------------------ trend analysis

\* list.sort(key, reverse=True) is stable: e goes behind every element whose
\* key is not smaller
InsertDescBy(sorted, e, key) ==
  LET p == Cardinality({i \in 1..Len(sorted) : sorted[i][key] >= e[key]}) IN
  SubSeq(sorted, 1, p) \o <<e>> \o SubSeq(sorted, p + 1, Len(sorted))

RECURSIVE SortDescBy(_, _)
SortDescBy(xs, key) ==
  IF xs = <<>> THEN <<>>
  ELSE InsertDescBy(SortDescBy(SubSeq(xs, 1, Len(xs) - 1), key), xs[Len(xs)], key)

\* load_all_insights: the records of the directory, newest first
LoadAllInsights(dir) == SortDescBy(dir, "date")

\* variant: a record with the labels of the record before it adds nothing
RECURSIVE Collect_Runs(_, _, _)
Collect_Runs(ins, field, i) ==
  IF i = 0 THEN <<>>
  ELSE IF i > 1 /\ Get(ins[i], field, <<>>) = Get(ins[i - 1], field, <<>>)
       THEN Collect_Runs(ins, field, i - 1)
       ELSE Collect_Runs(ins, field, i - 1) \o Get(ins[i], field, <<>>)

\* all_X.extend(insight.get(field, [])) over the first i records
RECURSIVE Collect(_, _, _)
Collect(ins, field, i) ==
  IF i = 0 THEN <<>> ELSE Collect(ins, field, i - 1) \o Get(ins[i], field, <<>>)

\* variant: every key is counted once however often it occurs
Counter_Distinct(xs) ==
  LET first == {i \in 1..Len(xs) : \A j \in 1..(i - 1) : xs[j] # xs[i]}
      Nth(k) == CHOOSE i \in first : Cardinality({j \in first : j <= i}) = k
  IN SubSeq([k \in 1..Cardinality(first) |-> [key |-> xs[Nth(k)], count |-> 1]],
            1, Cardinality(first))

\* Counter(xs): one [key, count] pair per distinct element of xs, in order of
\* first encounter; count is the number of positions holding the key
Counter(xs) ==
  LET first == {i \in 1..Len(xs) : \A j \in 1..(i - 1) : xs[j] # xs[i]}
      Nth(k) == CHOOSE i \in first : Cardinality({j \in first : j <= i}) = k
  IN SubSeq([k \in 1..Cardinality(first) |->
               [key |-> xs[Nth(k)],
                count |-> Cardinality({j \in 1..Len(xs) : xs[j] = xs[Nth(k)]})]],
            1, Cardinality(first))

\* Counter.most_common(n) = sorted(items, key=count, reverse=True)[:n]
MostCommon_FromEnd(c, n) ==
  LET s == SortDescBy(c, "count") IN SubSeq(s, Len(s) - Min(n, Len(s)) + 1, Len(s))

MostCommon(c, n) ==
  LET s == SortDescBy(c, "count") IN SubSeq(s, 1, Min(n, Len(s)))

AnalyzeTopics(ins) ==
  LET all_topics == Collect(ins, "topics", Len(ins))
      topic_counts == Counter(all_topics)
      top_topics == MostCommon(topic_counts, TopTopicsLimit)
  IN [total_unique_topics |-> Len(topic_counts),
      total_mentions |-> Len(all_topics),
      top_topics |-> [i \in 1..Len(top_topics) |->
                        [topic |-> top_topics[i].key, count |-> top_topics[i].count]],
      topic_frequency |-> topic_counts]

\* risk_timeline of the first i records
RECURSIVE RiskTimeline(_, _)
RiskTimeline(ins, i) ==
  IF i = 0 THEN <<>>
  ELSE LET risks == Get(ins[i], "risks", <<>>) IN
       RiskTimeline(ins, i - 1) \o
       [j \in 1..Len(risks) |-> [risk |-> risks[j], date |-> Get(ins[i], "date", ""),
                                 filename |-> Get(ins[i], "filename", "")]]

\* variant: only the first mention is kept
OccurrencesOfRisk_First(timeline, risk) ==
  LET Same(r) == r.risk = risk IN SubSeq(SelectSeq(timeline, Same), 1, 1)

\* [r for r in risk_timeline if r['risk'] == risk]
OccurrencesOfRisk(timeline, risk) ==
  LET Same(r) == r.risk = risk IN SelectSeq(timeline, Same)

RepeatedRisks_Unsorted(risk_counts, timeline) ==
  LET Repeated(c) == c.count >= RepeatedRiskMin
      sel == SelectSeq(risk_counts, Repeated)
  IN [i \in 1..Len(sel) |->
        [risk |-> sel[i].key, count |-> sel[i].count,
         occurrences |-> OccurrencesOfRisk(timeline, sel[i].key)]]

RepeatedRisks(risk_counts, timeline) ==
  LET Repeated(c) == c.count >= RepeatedRiskMin
      sel == SelectSeq(risk_counts, Repeated)
  IN SortDescBy([i \in 1..Len(sel) |->
                   [risk |-> sel[i].key, count |-> sel[i].count,
                    occurrences |-> OccurrencesOfRisk(timeline, sel[i].key)]], "count")

AnalyzeRisks(ins) ==
  LET all_risks == Collect(ins, "risks", Len(ins))
      risk_timeline == RiskTimeline(ins, Len(ins))
      risk_counts == Counter(all_risks)
      top_risks == MostCommon(risk_counts, TopRisksLimit)
  IN [total_unique_risks |-> Len(risk_counts),
      total_risk_mentions |-> Len(all_risks),
      repeated_risks |-> RepeatedRisks(risk_counts, risk_timeline),
      top_risks |-> [i \in 1..Len(top_risks) |->
                       [risk |-> top_risks[i].key, count |-> top_risks[i].count]]]

AnalyzeOpportunities(ins) ==
  LET all_opportunities == Collect(ins, "opportunities", Len(ins))
      opp_counts == Counter(all_opportunities)
      top == MostCommon(opp_counts, TopOpportunitiesLimit)
  IN [total_unique_opportunities |-> Len(opp_counts),
      total_mentions |-> Len(all_opportunities),
      top_opportunities |-> [i \in 1..Len(top) |->
                               [opportunity |-> top[i].key, count |-> top[i].count]]]

\* all_action_items of the first i records
RECURSIVE AllActionItems(_, _)
AllActionItems(ins, i) ==
  IF i = 0 THEN <<>>
  ELSE LET action_items == Get(ins[i], "action_items", <<>>) IN
       AllActionItems(ins, i - 1) \o
       [j \in 1..Len(action_items) |->
          [task |-> Get(action_items[j], "task", ""),
           owner |-> Get(action_items[j], "owner", "Unassigned"),
           deadline |-> Get(action_items[j], "deadline", "No deadline"),
           status |-> Get(action_items[j], "status", "open"),
           source_file |-> Get(ins[i], "filename", ""),
           source_date |-> Get(ins[i], "date", "")]]

\* len(closed_items) / len(all_action_items) * 100, as an exact fraction
CompletionRate_OfOpen(open_items, closed_items, all_items) ==
  IF Len(all_items) # 0 THEN [num |-> Len(open_items) * 100, den |-> Len(all_items)]
  ELSE [num |-> 0, den |-> 1]

CompletionRate(open_items, closed_items, all_items) ==
  IF Len(all_items) # 0 THEN [num |-> Len(closed_items) * 100, den |-> Len(all_items)]
  ELSE [num |-> 0, den |-> 1]

TrackActionItems(ins) ==
  LET all_action_items == AllActionItems(ins, Len(ins))
      IsOpen(item) == item.status = "open"
      IsClosed(item) == item.status = "closed"
      open_items == SelectSeq(all_action_items, IsOpen)
      closed_items == SelectSeq(all_action_items, IsClosed)
      owner_counts == Counter([i \in 1..Len(all_action_items) |-> all_action_items[i].owner])
  IN [total_action_items |-> Len(all_action_items),
      open_items |-> Len(open_items),
      closed_items |-> Len(closed_items),
      completion_rate |-> CompletionRate(open_items, closed_items, all_action_items),
      all_items |-> all_action_items,
      open_items_list |-> open_items,
      by_owner |-> owner_counts]

\* the appends to topic_timeline made for the first i records, in order
RECURSIVE TopicTimeline(_, _)
TopicTimeline(ins, i) ==
  IF i = 0 THEN <<>>
  ELSE LET topics == Get(ins[i], "topics", <<>>) IN
       TopicTimeline(ins, i - 1) \o
       [j \in 1..Len(topics) |-> [topic |-> topics[j], date |-> Get(ins[i], "date", ""),
                                  filename |-> Get(ins[i], "filename", "")]]

\* topic_timeline[topic]
TimelineOf(tl, topic) ==
  LET Same(e) == e.topic = topic
      sel == SelectSeq(tl, Same)
  IN [i \in 1..Len(sel) |-> [date |-> sel[i].date, filename |-> sel[i].filename]]

Emerging_Above(topic_counts, threshold) ==
  LET Frequent(c) == c.count > threshold IN SelectSeq(topic_counts, Frequent)

Emerging(topic_counts, threshold) ==
  LET Frequent(c) == c.count >= threshold IN SelectSeq(topic_counts, Frequent)

DetectEmergingThemes(ins, threshold) ==
  LET all_topics == Collect(ins, "topics", Len(ins))
      topic_timeline == TopicTimeline(ins, Len(ins))
      topic_counts == Counter(all_topics)
      sel == Emerging(topic_counts, threshold)
  IN SortDescBy([i \in 1..Len(sel) |->
                   [theme |-> sel[i].key, count |-> sel[i].count,
                    occurrences |-> TimelineOf(topic_timeline, sel[i].key)]], "count")

Call(fn, arg, ret) == [fn |-> fn, arg |-> arg, ret |-> ret]

\* The dashboard pages call each function on load_all_insights()
CallAnalyzeTopics ==
  /\ out' = Call("analyze_topics", 0, AnalyzeTopics(LoadAllInsights(insights)))
  /\ UNCHANGED <<insights, storeVars, appVars>>

CallAnalyzeRisks ==
  /\ out' = Call("analyze_risks", 0, AnalyzeRisks(LoadAllInsights(insights)))
  /\ UNCHANGED <<insights, storeVars, appVars>>

CallAnalyzeOpportunities ==
  /\ out' = Call("analyze_opportunities", 0, AnalyzeOpportunities(LoadAllInsights(insights)))
  /\ UNCHANGED <<insights, storeVars, appVars>>

CallTrackActionItems ==
  /\ out' = Call("track_action_items", 0, TrackActionItems(LoadAllInsights(insights)))
  /\ UNCHANGED <<insights, storeVars, appVars>>

CallDetectEmergingThemes(threshold) ==
  /\ out' = Call("detect_emerging_themes", threshold,
                 DetectEmergingThemes(LoadAllInsights(insights), threshold))
  /\ UNCHANGED <<insights, storeVars, appVars>>

InitTrends == Init /\ provider = "local"

NextTrends ==
  \/ \E data \in Responses, meta \in Uploads, llmOk \in BOOLEAN :
       ExtractInsights(data, meta, llmOk)
  \/ CallAnalyzeTopics
  \/ CallAnalyzeRisks
  \/ CallAnalyzeOpportunities
  \/ CallTrackActionItems
  \/ \E threshold \in 1..MaxThreshold : CallDetectEmergingThemes(threshold)

SpecTrends == InitTrends /\ [][NextTrends]_vars

\* ------------------------------------------- trend functions on any records
\* A date string is [text, day, suffix]: text "iso" for an ISO-8601
\* timestamp of the given day with the given zone suffix, any other text for
\* a string that is no timestamp; PyNone as text stands for a null date.
IsoDate(day, suffix) == [text |-> "iso", day |-> day, suffix |-> suffix]
NotADate == [text |-> "not a date", day |-> 0, suffix |-> ""]
NullDate == [text |-> PyNone, day |-> 0, suffix |-> ""]
\* variant: a missing date is read without a default
EmptyDate_Null == [text |-> PyNone, day |-> 0, suffix |-> ""]

\* insight.get('date', '') for a record without a date
EmptyDate == [text |-> "", day |-> 0, suffix |-> ""]


\* Records handed to the trend functions: two complete ones as extraction
\* writes them, one dated in UTC, one without any known field and with an
\* unknown one, one with some fields only, one with a null date, one with a date that is no timestamp
\* and an unknown sentiment, one complete but without any label or item.
RecordA ==
  [filename |-> "m1.txt", date |-> IsoDate(1, ""), sentiment |-> "positive",
   topics |-> <<1, 2>>, risks |-> <<1>>, opportunities |-> <<1>>,
   action_items |-> <<[task |-> "t1", owner |-> "alice", deadline |-> PyNone,
                       status |-> "closed"]>>]
RecordB ==
  [filename |-> "m2.txt", date |-> IsoDate(3, ""), sentiment |-> "negative",
   topics |-> <<2, 1, 3>>, risks |-> <<1, 2>>, opportunities |-> <<>>,
   action_items |-> <<[task |-> "t2", owner |-> "bob", deadline |-> "friday",
                       status |-> "open"]>>]
RecordUtc ==
  [filename |-> "m3.txt", date |-> IsoDate(2, "Z"), sentiment |-> "neutral",
   topics |-> <<3>>, risks |-> <<2>>, opportunities |-> <<1>>, action_items |-> <<>>]
RecordBare == [source |-> "import"]
RecordPartial ==
  [filename |-> "m4.txt", topics |-> <<1, 3>>, notes |-> "kept",
   action_items |-> <<[task |-> "t4", owner |-> "alice", deadline |-> PyNone,
                       status |-> "open"]>>]
RecordNullDate ==
  [filename |-> "m5.txt", date |-> NullDate, sentiment |-> "positive",
   topics |-> <<1>>, risks |-> <<>>, opportunities |-> <<>>, action_items |-> <<>>]
RecordBadDate ==
  [filename |-> "m6.txt", date |-> NotADate, sentiment |-> "mixed",
   topics |-> <<2>>, risks |-> <<>>, opportunities |-> <<>>,
   action_items |-> <<[task |-> "t3"]>>]
RecordQuiet ==
  [filename |-> "m7.txt", date |-> IsoDate(2, ""), sentiment |-> "neutral",
   topics |-> <<>>, risks |-> <<>>, opportunities |-> <<>>, action_items |-> <<>>]
Records == {RecordA, RecordB, RecordUtc, RecordBare, RecordPartial, RecordNullDate,
            RecordBadDate, RecordQuiet}

\* date_str.replace('Z', '+00:00')
ReplaceZ(d) == IF d.suffix = "Z" THEN [d EXCEPT !.suffix = "+00:00"] ELSE d

OffsetHours(suffix) == IF suffix = "+02:00" THEN 2 ELSE 0

\* datetime.fromisoformat: a naive datetime without suffix, an aware one
\* with a +hh:mm suffix, ValueError (ok FALSE) otherwise.  instant is in
\* hours, in UTC for an aware datetime.
FromIsoFormat(d) ==
  IF d.text = "iso" /\ d.suffix \in {"", "+00:00", "+02:00"}
  THEN [ok |-> TRUE, aware |-> d.suffix # "",
        instant |-> 24 * d.day - OffsetHours(d.suffix)]
  ELSE [ok |-> FALSE, aware |-> FALSE, instant |-> 0]

SentimentScore(sentiment) ==
  CASE sentiment = "positive" -> 1
    [] sentiment = "neutral" -> 0
    [] sentiment = "negative" -> 0 - 1
    [] OTHER -> 0

\* the loop of lines 174-190 over the first i records: None.replace raises
\* AttributeError, which the except clause does not catch
RECURSIVE SentimentData(_, _)
SentimentData(ins, i) ==
  IF i = 0 THEN [raised |-> FALSE, rows |-> <<>>]
  ELSE LET prev == SentimentData(ins, i - 1)
           date_str == Get(ins[i], "date", EmptyDate)
           sentiment == Get(ins[i], "sentiment", "neutral")
           filename == Get(ins[i], "filename", "")
           date == FromIsoFormat(ReplaceZ(date_str))
       IN IF prev.raised \/ date_str.text = PyNone THEN [raised |-> TRUE, rows |-> <<>>]
          ELSE IF ~date.ok THEN prev
          ELSE [raised |-> FALSE,
                rows |-> Append(prev.rows,
                                [date |-> [aware |-> date.aware, instant |-> date.instant],
                                 sentiment |-> sentiment,
                                 sentiment_score |-> SentimentScore(sentiment),
                                 filename |-> filename])]

\* comparing a naive with an aware datetime raises TypeError
Comparable(rows) == \A i, j \in 1..Len(rows) : rows[i].date.aware = rows[j].date.aware

InsertByDate(sorted, e) ==
  LET p == Cardinality({i \in 1..Len(sorted) : sorted[i].date.instant <= e.date.instant}) IN
  SubSeq(sorted, 1, p) \o <<e>> \o SubSeq(sorted, p + 1, Len(sorted))

\* df.sort_values('date'); on the few rows considered the sort keeps rows of
\* equal date in their order
RECURSIVE SortValues(_)
SortValues(rows) ==
  IF rows = <<>> THEN <<>>
  ELSE InsertByDate(SortValues(SubSeq(rows, 1, Len(rows) - 1)), rows[Len(rows)])

AnalyzeSentimentOverTime(ins) ==
  LET data == SentimentData(ins, Len(ins)) IN
  IF data.raised THEN [raised |-> TRUE, rows |-> <<>>]
  ELSE IF data.rows = <<>> THEN [raised |-> FALSE, rows |-> <<>>]
  ELSE IF ~Comparable(data.rows) THEN [raised |-> TRUE, rows |-> <<>>]
  ELSE [raised |-> FALSE, rows |-> SortValues(data.rows)]

\* The summary text is a sequence of lines: headings with their level, list
\* items with the values printed in them, plain text.
NoTranscriptsText == "No transcripts available for summary."
Heading(level, name) == [kind |-> "heading", level |-> level, name |-> name, val |-> <<>>]
Item(name, val) == [kind |-> "item", level |-> 0, name |-> name, val |-> val]
Text(name) == [kind |-> "text", level |-> 0, name |-> name, val |-> <<>>]

\* period.title()
Title(period) == IF period = "recent" THEN "Recent" ELSE period

\* sentiment_dist.get(key, 0)
CounterGet(c, key) ==
  IF \E i \in 1..Len(c) : c[i].key = key
  THEN (CHOOSE e \in {c[i] : i \in 1..Len(c)} : e.key = key).count
  ELSE 0

First(list, n) == SubSeq(list, 1, Min(n, Len(list)))

\* one heading and one item per entry, printing the entry's label and, when
\* it has one printed, its count; nothing when the list is empty
Section(name, list, label, counted) ==
  IF list # <<>>
  THEN <<Heading(3, name)>> \o
       [i \in 1..Len(list) |->
          Item(label, IF counted THEN <<list[i][label], list[i].count>> ELSE <<list[i][label]>>)]
  ELSE <<>>

GenerateExecutiveSummary(ins, period) ==
  IF ins = <<>> THEN <<Text(NoTranscriptsText)>>
  ELSE
    LET topics == AnalyzeTopics(ins)
        risks == AnalyzeRisks(ins)
        opps == AnalyzeOpportunities(ins)
        actions == TrackActionItems(ins)
        emerging == DetectEmergingThemes(ins, SummaryThreshold)
        sentiment_dist == Counter([i \in 1..Len(ins) |-> Get(ins[i], "sentiment", "neutral")])
        top_owners == First(SortDescBy(actions.by_owner, "count"), 3)
    IN <<Heading(1, "Executive Summary (" \o Title(period) \o ")"),
         Heading(2, "Overview"),
         Item("Total Meetings Analyzed", <<Len(ins)>>),
         Item("Sentiment Distribution",
              <<CounterGet(sentiment_dist, "positive"), CounterGet(sentiment_dist, "neutral"),
                CounterGet(sentiment_dist, "negative")>>),
         Item("Open Action Items",
              <<actions.open_items, actions.total_action_items, actions.completion_rate>>),
         Heading(2, "Key Themes")>>
       \o Section("Most Discussed Topics", First(topics.top_topics, 5), "topic", TRUE)
       \o Section("Emerging Themes (2+ mentions)", First(emerging, 5), "theme", TRUE)
       \o Section("Repeated Risks (Requires Attention)", First(risks.repeated_risks, 3),
                  "risk", TRUE)
       \o Section("Top Opportunities", First(opps.top_opportunities, 3), "opportunity", FALSE)
       \o (IF actions.all_items # <<>>
           THEN <<Heading(3, "Action Items"), Item("open items", <<actions.open_items>>)>>
                \o (IF actions.by_owner # <<>>
                    THEN <<Item("Top owners",
                                [i \in 1..Len(top_owners) |->
                                   <<top_owners[i].key, top_owners[i].count>>])>>
                    ELSE <<>>)
           ELSE <<>>)

\* get_dashboard_data(insights) with a list given: an exception of one
\* function ends the call
GetDashboardData(ins) ==
  LET timeline == AnalyzeSentimentOverTime(ins) IN
  IF timeline.raised THEN [raised |-> TRUE]
  ELSE [raised |-> FALSE,
        total_transcripts |-> Len(ins),
        topics |-> AnalyzeTopics(ins),
        risks |-> AnalyzeRisks(ins),
        opportunities |-> AnalyzeOpportunities(ins),
        sentiment_timeline |-> timeline.rows,
        action_items |-> TrackActionItems(ins),
        emerging_themes |-> DetectEmergingThemes(ins, DefaultThreshold),
        executive_summary |-> GenerateExecutiveSummary(ins, "recent")]

\* a caller puts one more record into the list it passes to the functions
ReceiveRecord(rec) ==
  /\ Len(insights) < MaxInsights
  /\ insights' = Append(insights, rec)
  /\ out' = NoCall
  /\ UNCHANGED <<storeVars, appVars>>

\* variant: the call leaves the caller's list reversed
AfterCall_Reversed(ins) == [i \in 1..Len(ins) |-> ins[Len(ins) + 1 - i]]

\* the caller's list after a call: the functions assign to their own locals
\* only, never to the list or to a record of it
AfterCall(ins) == ins

ApplyAnalyzeTopics ==
  /\ out' = Call("analyze_topics", 0, AnalyzeTopics(insights))
  /\ insights' = AfterCall(insights)
  /\ UNCHANGED <<storeVars, appVars>>

ApplyAnalyzeRisks ==
  /\ out' = Call("analyze_risks", 0, AnalyzeRisks(insights))
  /\ insights' = AfterCall(insights)
  /\ UNCHANGED <<storeVars, appVars>>

ApplyAnalyzeOpportunities ==
  /\ out' = Call("analyze_opportunities", 0, AnalyzeOpportunities(insights))
  /\ insights' = AfterCall(insights)
  /\ UNCHANGED <<storeVars, appVars>>

ApplyAnalyzeSentimentOverTime ==
  /\ out' = Call("analyze_sentiment_over_time", 0, AnalyzeSentimentOverTime(insights))
  /\ insights' = AfterCall(insights)
  /\ UNCHANGED <<storeVars, appVars>>

ApplyTrackActionItems ==
  /\ out' = Call("track_action_items", 0, TrackActionItems(insights))
  /\ insights' = AfterCall(insights)
  /\ UNCHANGED <<storeVars, appVars>>

ApplyDetectEmergingThemes(threshold) ==
  /\ out' = Call("detect_emerging_themes", threshold, DetectEmergingThemes(insights, threshold))
  /\ insights' = AfterCall(insights)
  /\ UNCHANGED <<storeVars, appVars>>

ApplyGenerateExecutiveSummary ==
  /\ out' = Call("generate_executive_summary", 0, GenerateExecutiveSummary(insights, "recent"))
  /\ insights' = AfterCall(insights)
  /\ UNCHANGED <<storeVars, appVars>>

ApplyGetDashboardData ==
  /\ out' = Call("get_dashboard_data", 0, GetDashboardData(insights))
  /\ insights' = AfterCall(insights)
  /\ UNCHANGED <<storeVars, appVars>>

NextRecords ==
  \/ \E rec \in Records : ReceiveRecord(rec)
  \/ ApplyAnalyzeTopics
  \/ ApplyAnalyzeRisks
  \/ ApplyAnalyzeOpportunities
  \/ ApplyAnalyzeSentimentOverTime
  \/ ApplyTrackActionItems
  \/ \E threshold \in {SummaryThreshold, DefaultThreshold} : ApplyDetectEmergingThemes(threshold)
  \/ ApplyGenerateExecutiveSummary
  \/ ApplyGetDashboardData

SpecRecords == InitTrends /\ [][NextRecords]_vars

\* -------------------------------------------------------------- upload page
MaxUploads == 3   \* runs of the upload page per behaviour

\* the files users upload: a supported name and bytes that give enough text
UploadedFiles == {[filename |-> f, content |-> t] : f \in {"q1.txt", "q2.txt"}, t \in Texts}

\* get_file_hash: the SHA-256 digest of the bytes; the contents considered
\* have pairwise distinct digests
FileHash(content) == [sha256 |-> content]

\* open(temp_path, 'wb'): the file of that name is created or rewritten
Written(dir, file) == {f \in dir : f.filename # file.filename} \cup {file}

\* the orders in which glob("*") may list the directory
Listings(dir) ==
  LET n == Cardinality(dir) IN
  {l \in [1..n -> dir] : \A i, j \in 1..n : l[i] = l[j] => i = j}

\* the directory holds one file per name
Directories ==
  {d \in SUBSET UploadedFiles : \A f, g \in d : f.filename = g.filename => f = g}

AllListings == UNION {Listings(d) : d \in Directories}

\* check_duplicate: the name of the first listed file with that hash
CheckDuplicate(listing, file_hash) ==
  LET hits == {i \in 1..Len(listing) : FileHash(listing[i].content) = file_hash} IN
  IF hits = {} THEN PyNone
  ELSE listing[CHOOSE i \in hits : \A j \in hits : i <= j].filename

\* process_upload for a supported file with enough text: the directory it
\* leaves and what it returns
ProcessUpload(dir, file, listing) ==
  LET stored == Written(dir, file)
      file_hash == FileHash(file.content)
      duplicate_file == CheckDuplicate(listing, file_hash)
  IN IF duplicate_file # PyNone /\ duplicate_file # file.filename
     THEN [dir |-> stored, success |-> FALSE, is_duplicate |-> TRUE,
           duplicate_file |-> duplicate_file]
     ELSE [dir |-> stored, success |-> TRUE, is_duplicate |-> FALSE,
           duplicate_file |-> PyNone]

\* one press of 'Process File' in page_upload, run to its end: ingestion,
\* then extract_insights (which saves nothing when llmOk is FALSE and returns
\* an error structure), then add_document on the store, whose exception the
\* page catches.  lastOp, results and rt observe calls made on the store
\* directly and are left alone.
PageUpload(file, listing, data, llmOk, embedOk) ==
  LET result == ProcessUpload(transcripts, file, listing)
      meta == [filename |-> file.filename, upload_date |-> clock + 1]
      a == AddInMemory(index, metadata, provider, file.content, meta, embedOk)
      s == SaveIndex(a.index, a.metadata, idxFile, metaFile, "ok")
  IN
  /\ running
  /\ clock < MaxUploads
  /\ listing \in Listings(Written(transcripts, file))
  /\ transcripts' = result.dir
  /\ clock' = clock + 1
  /\ out' = NoCall
  /\ IF ~result.success
     THEN /\ upload' = [filename |-> file.filename, content |-> file.content,
                        success |-> FALSE, is_duplicate |-> result.is_duplicate,
                        duplicate_file |-> result.duplicate_file,
                        insights_saved |-> FALSE, indexed |-> FALSE]
          /\ UNCHANGED <<insights, index, metadata, idxFile, metaFile>>
     ELSE /\ insights' = IF llmOk THEN SaveInsights(insights, InsightRecord(data, meta))
                         ELSE insights
          /\ index' = a.index
          /\ metadata' = a.metadata
          /\ idxFile' = IF a.raised THEN idxFile ELSE s.idxFile
          /\ metaFile' = IF a.raised THEN metaFile ELSE s.metaFile
          /\ upload' = [filename |-> file.filename, content |-> file.content,
                        success |-> TRUE, is_duplicate |-> FALSE,
                        duplicate_file |-> result.duplicate_file,
                        insights_saved |-> llmOk, indexed |-> ~a.raised]
  /\ UNCHANGED <<running, provider, dimension, lastOp, results, rt, instance, stores, callers>>

NextUpload ==
  \E file \in UploadedFiles, listing \in AllListings, data \in {ResponseA, ResponseB},
     llmOk \in BOOLEAN, embedOk \in BOOLEAN :
    PageUpload(file, listing, data, llmOk, embedOk)

SpecUpload == InitTrends /\ [][NextUpload]_vars

\* ------------------------------------------- concurrent add_document callers
MaxCalls == 1   \* calls of the module-level add_document per thread

\* the document each thread adds
DocumentOf(t) ==
  IF t = 1 THEN [filename |-> "q1.txt", text |-> TextA, upload_date |-> 1]
  ELSE [filename |-> "q2.txt", text |-> TextAB, upload_date |-> 2]

Caller(t, c) == callers' = [callers EXCEPT ![t] = c]

\* initialize_store: the test '_store_instance is None'
InitializeStoreTest(t) ==
  /\ callers[t].pc = "idle"
  /\ callers[t].calls < MaxCalls
  /\ Caller(t, [callers[t] EXCEPT !.seen = instance,
                                  !.pc = IF instance = 0 THEN "construct" ELSE "return"])
  /\ UNCHANGED <<storeVars, insights, out, transcripts, upload, instance, stores>>

\* EmbeddingStore(): a new object that loads what the files hold
InitializeStoreConstruct(t) ==
  LET r == LoadIndexResult(idxFile, metaFile, dimension) IN
  /\ callers[t].pc = "construct"
  /\ stores' = Append(stores, [index |-> r.index, metadata |-> r.metadata])
  /\ Caller(t, [callers[t] EXCEPT !.made = Len(stores) + 1, !.pc = "assign"])
  /\ UNCHANGED <<storeVars, insights, out, transcripts, upload, instance>>

\* _store_instance = <the new object>
InitializeStoreAssign(t) ==
  /\ callers[t].pc = "assign"
  /\ instance' = callers[t].made
  /\ Caller(t, [callers[t] EXCEPT !.pc = "return"])
  /\ UNCHANGED <<storeVars, insights, out, transcripts, upload, stores>>

\* return _store_instance
InitializeStoreReturn(t) ==
  /\ callers[t].pc = "return"
  /\ Caller(t, [callers[t] EXCEPT !.store = instance, !.pc = "index_add"])
  /\ UNCHANGED <<storeVars, insights, out, transcripts, upload, instance, stores>>

\* embedding = self._generate_embedding(text); self.index.add(...)
IndexAdd(t) ==
  LET st == callers[t].store
      embedding == GenerateEmbedding(provider, DocumentOf(t).text)
  IN
  /\ callers[t].pc = "index_add"
  /\ stores' = [stores EXCEPT ![st].index.vecs = Append(@, embedding)]
  /\ Caller(t, [callers[t] EXCEPT !.pc = "doc_id"])
  /\ UNCHANGED <<storeVars, insights, out, transcripts, upload, instance>>

\* doc_id = len(self.metadata)
TakeDocId(t) ==
  /\ callers[t].pc = "doc_id"
  /\ Caller(t, [callers[t] EXCEPT !.doc_id = NewDocId(stores[callers[t].store].metadata),
                                  !.pc = "append"])
  /\ UNCHANGED <<storeVars, insights, out, transcripts, upload, instance, stores>>

\* metadata['doc_id'] = doc_id; ...; self.metadata.append(metadata)
MetadataAppend(t) ==
  LET st == callers[t].store
      doc == DocumentOf(t)
      meta == [filename |-> doc.filename, upload_date |-> doc.upload_date]
  IN
  /\ callers[t].pc = "append"
  /\ stores' = [stores EXCEPT ![st].metadata =
                  Append(@, Entry(meta, callers[t].doc_id, doc.text, dimension))]
  /\ Caller(t, [callers[t] EXCEPT !.pc = "save"])
  /\ UNCHANGED <<storeVars, insights, out, transcripts, upload, instance>>

\* self.save_index(); return str(doc_id)
SaveAndReturn(t) ==
  LET st == stores[callers[t].store]
      s == SaveIndex(st.index, st.metadata, idxFile, metaFile, "ok")
  IN
  /\ callers[t].pc = "save"
  /\ idxFile' = s.idxFile
  /\ metaFile' = s.metaFile
  /\ Caller(t, [callers[t] EXCEPT !.pc = "idle", !.calls = @ + 1])
  /\ UNCHANGED <<running, provider, dimension, index, metadata, clock, lastOp, results, rt,
                 insights, out, transcripts, upload, instance, stores>>

NextThreads ==
  \E t \in CallerIds :
    \/ InitializeStoreTest(t)
    \/ InitializeStoreConstruct(t)
    \/ InitializeStoreAssign(t)
    \/ InitializeStoreReturn(t)
    \/ IndexAdd(t)
    \/ TakeDocId(t)
    \/ MetadataAppend(t)
    \/ SaveAndReturn(t)

SpecThreads == InitTrends /\ [][NextThreads]_vars

\* ------------------------------------------------------------------ claims
Dimensions == {Dimension(p) : p \in Providers}

\* the two files describe the same number of documents, and load_index
\* builds a store whose vector count equals its metadata length
FilesAgree ==
  /\ (idxFile.st = "ok" /\ metaFile.st = "ok") => Len(idxFile.vecs) = Len(metaFile.data)
  /\ \A d \in Dimensions :
       Len(LoadIndexResult(idxFile, metaFile, d).index.vecs)
         = Len(LoadIndexResult(idxFile, metaFile, d).metadata)

\* C1: in every state of a running store the number of vectors in the index
\* equals the length of the metadata list.
C1_Lockstep == running => Len(index.vecs) = Len(metadata)

\* C2: a successful add_document gives the new entry doc_id = the metadata
\* length before the append and returns that value; the entry at position i
\* has doc_id i (counting from 0), doc_ids are pairwise distinct, and an
\* entry keeps its doc_id for as long as it is held.
C2_DocId ==
  /\ [](/\ \A i \in 1..Len(metadata) : metadata[i].doc_id = i - 1
        /\ \A i, j \in 1..Len(metadata) : i # j => metadata[i].doc_id # metadata[j].doc_id
        /\ \A i \in 1..Len(metaFile.data) : metaFile.data[i].doc_id = i - 1)
  /\ [][/\ (lastOp'.op = "add" /\ ~lastOp'.raised) =>
             /\ Len(metadata') = Len(metadata) + 1
             /\ metadata'[Len(metadata')].doc_id = Len(metadata)
             /\ lastOp'.ret = Str(Len(metadata))
             /\ ParseInt(lastOp'.ret) = Len(metadata)
        /\ \A i \in 1..Len(metadata) : \A j \in 1..Len(metadata') :
             metadata'[j].upload_date = metadata[i].upload_date
               => metadata'[j].doc_id = metadata[i].doc_id]_vars

C2_Witness ==
  /\ lastOp.op = "add" /\ ~lastOp.raised
  /\ Len(metadata) >= 2
  /\ lastOp.ret = <<Len(metadata) - 1>>

\* C3: when the process stops during add_document, files that agreed on the
\* number of documents still agree, so a later load_index builds a store
\* whose vector count equals its metadata length.
C3_CrashKeepsFilesInStep == [][(lastOp'.op = "crash" /\ FilesAgree) => FilesAgree']_vars

\* C4: after an add_document that returned a doc_id, a new store built from
\* the files (same dimension) holds the same metadata sequence and the same
\* number of vectors as the store that performed the add.
C4_ReturnedAddIsDurable ==
  (running /\ lastOp.op = "add" /\ ~lastOp.raised) =>
     /\ LoadIndexResult(idxFile, metaFile, dimension).metadata = metadata
     /\ Len(LoadIndexResult(idxFile, metaFile, dimension).index.vecs) = Len(index.vecs)

\* C5: when a file write fails during add_document, the call raises (no
\* doc_id is returned) and the in-memory counts stay equal.
C5_SaveFailureReported ==
  (lastOp.op = "add" /\ lastOp.save \notin {"none", "ok"}) =>
     /\ lastOp.raised
     /\ lastOp.ret = <<>>
     /\ Len(index.vecs) = Len(metadata)

\* C6: when the embedding function fails inside search on a non-empty
\* index, search raises instead of returning an empty list.
C6_SearchEmbeddingFailureRaises ==
  (lastOp.op = "search" /\ lastOp.embedFailed) => lastOp.raised

\* C7: when the embedding function fails inside add_document, the call
\* raises and the index, the metadata list and both files are as before the
\* call, so the next add receives the doc_id this one would have received.
C7_FailedEmbeddingChangesNothing ==
  [][(lastOp'.op = "add" /\ lastOp'.embedFailed) =>
       /\ lastOp'.raised
       /\ lastOp'.ret = <<>>
       /\ index' = index
       /\ metadata' = metadata
       /\ idxFile' = idxFile
       /\ metaFile' = metaFile
       /\ NewDocId(metadata') = NewDocId(metadata)]_vars

C7_Witness ==
  /\ lastOp.op = "add" /\ lastOp.embedFailed /\ lastOp.raised
  /\ Len(metadata) >= 1
  /\ metaFile.st = "ok" /\ metaFile.data = metadata

\* C8: a load_index that meets an index of another dimension leaves an empty
\* index of the configured dimension and an empty metadata list without
\* raising, and no search of a store returns an entry of a discarded index,
\* that is, an entry whose vector was computed in another dimension than
\* the store's.
C8_StaleIndexDiscarded ==
  /\ (lastOp.op \in {"load", "construct"} /\ lastOp.mismatch) =>
        /\ ~lastOp.raised
        /\ index = NewIndex(dimension)
        /\ metadata = <<>>
  /\ \A i \in 1..Len(results) : results[i].embedded_dim = dimension

\* C9: load_index never raises; with a file missing or unreadable the store
\* is empty on both sides; with both files readable and the dimension
\* matching, the in-memory state is the persisted state.
C9_LoadIndex ==
  (lastOp.op \in {"load", "construct"}) =>
     /\ ~lastOp.raised
     /\ (idxFile.st # "ok" \/ metaFile.st # "ok") =>
          index = NewIndex(dimension) /\ metadata = <<>>
     /\ (idxFile.st = "ok" /\ metaFile.st = "ok" /\ idxFile.d = dimension) =>
          /\ index = [d |-> idxFile.d, vecs |-> idxFile.vecs]
          /\ metadata = metaFile.data
     /\ (Len(index.vecs) > 0 \/ Len(metadata) > 0) =>
          idxFile.st = "ok" /\ metaFile.st = "ok"

C9_Witness ==
  /\ lastOp.op \in {"load", "construct"}
  /\ idxFile.st = "ok" /\ Len(idxFile.vecs) > 0 /\ idxFile.d = dimension
  /\ metaFile.st = "corrupt"
  /\ index = NewIndex(dimension) /\ metadata = <<>>

\* C10: add_document(text, metadata), a save, a reload in a new store and
\* search(text, k) with k >= 1 return that document at rank 1 with distance
\* 0 and score 1.0.
C10_RoundTrip ==
  (rt.stage = "searched") =>
     /\ Len(results) >= 1
     /\ results[1].rank = 1
     /\ results[1].upload_date = rt.date
     /\ results[1].distance = 0
     /\ results[1].score = [num |-> 1, den |-> 1]

\* C11: on a store holding m documents, search(query, k) with k >= 1 and a
\* working embedding function returns exactly min(k, m) results, ranked
\* 1..min(k, m) in non-decreasing distance, each a distinct stored document;
\* on an empty store it returns an empty list without raising and without
\* calling the embedding function.
C11_SearchCount ==
  [][\A q \in Texts, k \in 1..MaxK :
       /\ Search(q, k, TRUE) =>
            /\ ~lastOp'.raised
            /\ Len(results') = Min(k, Len(metadata))
            /\ \A i \in 1..Len(results') : results'[i].rank = i
            /\ \A i, j \in 1..Len(results') :
                 i < j => /\ results'[i].distance <= results'[j].distance
                          /\ results'[i].doc_id # results'[j].doc_id
            /\ \A i \in 1..Len(results') :
                 \E pos \in 1..Len(metadata) : metadata[pos].doc_id = results'[i].doc_id
       /\ (Search(q, k, FALSE) /\ Len(metadata) = 0) =>
            /\ results' = <<>>
            /\ ~lastOp'.raised
            /\ ~lastOp'.embedFailed]_vars

\* C12: every search result carries score = 1 / (1 + distance) for the
\* squared Euclidean distance between the query and its document's vector;
\* scores lie in (0, 1], a smaller distance never has a smaller score,
\* scores do not increase along the ranks, and the result carries the
\* complete stored metadata of its document.
C12_ScoresAndMetadata ==
  [][\A q \in Texts, k \in 1..MaxK :
       Search(q, k, TRUE) =>
         \A i \in 1..Len(results') :
           LET r == results'[i] IN
           /\ r.score = [num |-> 1, den |-> 1 + r.distance]
           /\ 0 < r.score.num /\ r.score.num <= r.score.den
           /\ \A j \in 1..Len(results') :
                LET o == results'[j] IN
                /\ r.distance < o.distance => r.score.num * o.score.den >= o.score.num * r.score.den
                /\ i < j => r.score.num * o.score.den >= o.score.num * r.score.den
           /\ r.doc_id + 1 \in 1..Len(metadata)
           /\ r.doc_id + 1 \in 1..Len(index.vecs)
           /\ r.distance = L2Sqr(GenerateEmbedding(provider, q), index.vecs[r.doc_id + 1])
           /\ \A f \in DOMAIN metadata[r.doc_id + 1] : r[f] = metadata[r.doc_id + 1][f]]_vars

\* ------------------------------------------------------ claims on trends.py
\* the list the dashboard passes to the trend functions
Loaded == LoadAllInsights(insights)

\* positions <<record, place>> of the labels of a field, and the labels there
Occurrences(ins, field) ==
  UNION {{<<i, j>> : j \in 1..Len(Get(ins[i], field, <<>>))} : i \in 1..Len(ins)}
LabelAt(ins, field, pos) == ins[pos[1]][field][pos[2]]
LabelsOf(ins, field) == {LabelAt(ins, field, pos) : pos \in Occurrences(ins, field)}
OccurrencesOf(ins, field, x) == {pos \in Occurrences(ins, field) : LabelAt(ins, field, pos) = x}

RECURSIVE SumCounts(_, _)
SumCounts(list, i) == IF i = 0 THEN 0 ELSE list[i].count + SumCounts(list, i - 1)

\* a top list names distinct labels of the field, each with its number of
\* occurrences, and holds all of them when they fit
TopCountsAgree(top, name, limit, field, total) ==
  /\ \A i \in 1..Len(top) :
       /\ top[i][name] \in LabelsOf(Loaded, field)
       /\ top[i].count = Cardinality(OccurrencesOf(Loaded, field, top[i][name]))
       /\ \A j \in 1..Len(top) : top[i][name] = top[j][name] => i = j
  /\ Len(top) = Min(limit, Cardinality(LabelsOf(Loaded, field)))
  /\ Cardinality(LabelsOf(Loaded, field)) <= limit => SumCounts(top, Len(top)) = total

\* C13: for topics, risks and opportunities the per-label counts sum to the
\* reported total of mentions, which is the number of label occurrences
\* over all records (a label repeated inside one record counts every time),
\* and the reported unique count is the number of distinct labels.
C13_CountsAndTotals ==
  /\ out.fn = "analyze_topics" =>
       /\ SumCounts(out.ret.topic_frequency, Len(out.ret.topic_frequency)) = out.ret.total_mentions
       /\ out.ret.total_mentions = Cardinality(Occurrences(Loaded, "topics"))
       /\ out.ret.total_unique_topics = Cardinality(LabelsOf(Loaded, "topics"))
       /\ Len(out.ret.topic_frequency) = out.ret.total_unique_topics
       /\ TopCountsAgree(out.ret.topic_frequency, "key", out.ret.total_unique_topics,
                         "topics", out.ret.total_mentions)
       /\ TopCountsAgree(out.ret.top_topics, "topic", TopTopicsLimit,
                         "topics", out.ret.total_mentions)
  /\ out.fn = "analyze_risks" =>
       /\ out.ret.total_risk_mentions = Cardinality(Occurrences(Loaded, "risks"))
       /\ out.ret.total_unique_risks = Cardinality(LabelsOf(Loaded, "risks"))
       /\ TopCountsAgree(out.ret.top_risks, "risk", TopRisksLimit,
                         "risks", out.ret.total_risk_mentions)
  /\ out.fn = "analyze_opportunities" =>
       /\ out.ret.total_mentions = Cardinality(Occurrences(Loaded, "opportunities"))
       /\ out.ret.total_unique_opportunities = Cardinality(LabelsOf(Loaded, "opportunities"))
       /\ TopCountsAgree(out.ret.top_opportunities, "opportunity", TopOpportunitiesLimit,
                         "opportunities", out.ret.total_mentions)

\* analyze_risks has run on records one of which names a risk twice
C13_Witness ==
  /\ out.fn = "analyze_risks"
  /\ \E i \in 1..Len(Loaded) : \E j, k \in 1..Len(Loaded[i].risks) :
       j # k /\ Loaded[i].risks[j] = Loaded[i].risks[k]
  /\ out.ret.total_risk_mentions > out.ret.total_unique_risks
  /\ Len(Loaded) > 1

\* position p comes before position q in the order the records are read
Before(p, q) == p[1] < q[1] \/ (p[1] = q[1] /\ p[2] < q[2])
FirstPos(ins, field, x) ==
  CHOOSE p \in OccurrencesOf(ins, field, x) :
    \A q \in OccurrencesOf(ins, field, x) : p = q \/ Before(p, q)

TopListOrdered(top, name, limit, field) ==
  /\ Len(top) <= limit
  /\ \A i, j \in 1..Len(top) :
       i < j => /\ top[i].count >= top[j].count
                /\ top[i].count = top[j].count =>
                     Before(FirstPos(Loaded, field, top[i][name]),
                            FirstPos(Loaded, field, top[j][name]))
  /\ \A x \in LabelsOf(Loaded, field) :
       (\A i \in 1..Len(top) : top[i][name] # x) =>
         \A i \in 1..Len(top) : Cardinality(OccurrencesOf(Loaded, field, x)) <= top[i].count

\* C14: the top lists (at most 20 topics, 10 risks, 10 opportunities) are
\* in non-increasing order of count, labels of equal count stand in the
\* order they were first encountered, and no label left out has a count
\* greater than a listed one.
C14_TopLists ==
  /\ out.fn = "analyze_topics" =>
       TopListOrdered(out.ret.top_topics, "topic", TopTopicsLimit, "topics")
  /\ out.fn = "analyze_risks" =>
       TopListOrdered(out.ret.top_risks, "risk", TopRisksLimit, "risks")
  /\ out.fn = "analyze_opportunities" =>
       TopListOrdered(out.ret.top_opportunities, "opportunity", TopOpportunitiesLimit,
                      "opportunities")

\* analyze_topics has cut a list of more than 20 labels that holds both
\* different counts and a tie
C14_Witness ==
  /\ out.fn = "analyze_topics"
  /\ out.ret.total_unique_topics > TopTopicsLimit
  /\ Len(out.ret.top_topics) = TopTopicsLimit
  /\ out.ret.top_topics[1].count > out.ret.top_topics[3].count
  /\ out.ret.top_topics[3].count = out.ret.top_topics[4].count

\* the k-th occurrence of label x, in reading order
NthPos(ins, field, x, k) ==
  CHOOSE p \in OccurrencesOf(ins, field, x) :
    Cardinality({q \in OccurrencesOf(ins, field, x) : Before(q, p)}) = k - 1

\* a list of [name, count, occurrences] entries holds exactly the labels of
\* the field whose number of occurrences reaches the bound least, each once,
\* with one occurrence per mention naming the record of that mention, by
\* falling count
FrequentLabels(list, name, field, least) ==
  /\ \A x \in LabelsOf(Loaded, field) :
       (Cardinality(OccurrencesOf(Loaded, field, x)) >= least)
         <=> (\E i \in 1..Len(list) : list[i][name] = x)
  /\ \A i \in 1..Len(list) :
       /\ list[i][name] \in LabelsOf(Loaded, field)
       /\ list[i].count = Cardinality(OccurrencesOf(Loaded, field, list[i][name]))
       /\ Len(list[i].occurrences) = list[i].count
       /\ \A k \in 1..Len(list[i].occurrences) :
            LET occ == list[i].occurrences[k]
                rec == Loaded[NthPos(Loaded, field, list[i][name], k)[1]]
            IN /\ {"filename", "date"} \subseteq DOMAIN occ
               /\ occ.filename = rec.filename
               /\ occ.date = rec.date
       /\ \A j \in 1..Len(list) : list[i][name] = list[j][name] => i = j
  /\ \A i, j \in 1..Len(list) : i < j => list[i].count >= list[j].count

\* C15: repeated_risks of analyze_risks contains a risk label exactly when
\* it occurs at least twice; its occurrences list has exactly count
\* elements, each with the filename and date of a record mentioning it; the
\* list is in non-increasing order of count.
C15_RepeatedRisks ==
  out.fn = "analyze_risks" =>
    FrequentLabels(out.ret.repeated_risks, "risk", "risks", 2)

\* analyze_risks has returned two repeated risks of different counts and
\* left out a risk mentioned once
C15_Witness ==
  /\ out.fn = "analyze_risks"
  /\ Len(out.ret.repeated_risks) >= 2
  /\ out.ret.repeated_risks[1].count > out.ret.repeated_risks[2].count
  /\ \E x \in LabelsOf(Loaded, "risks") : Cardinality(OccurrencesOf(Loaded, "risks", x)) = 1

\* C16: detect_emerging_themes(insights, threshold) returns a topic exactly
\* when it occurs at least threshold times; its occurrences list has
\* exactly count elements, each with the filename and date of a record
\* mentioning it; the list is in non-increasing order of count.  The default
\* threshold is 3 and the executive summary passes 2.
C16_EmergingThemes ==
  /\ DefaultThreshold = 3
  /\ SummaryThreshold = 2
  /\ out.fn = "detect_emerging_themes" =>
       FrequentLabels(out.ret, "theme", "topics", out.arg)

\* detect_emerging_themes with the default threshold has returned a theme
\* and left out a topic mentioned twice
C16_Witness ==
  /\ out.fn = "detect_emerging_themes"
  /\ out.arg = DefaultThreshold
  /\ Len(out.ret) >= 1
  /\ \E x \in LabelsOf(Loaded, "topics") : Cardinality(OccurrencesOf(Loaded, "topics", x)) = 2

\* the same records with the risks of each record filed as its topics
RisksAsTopics(ins) == [i \in 1..Len(ins) |-> [ins[i] EXCEPT !.topics = ins[i].risks]]

\* label, count and (filename, date) sequence of a list of entries
Outline(list, name) ==
  [i \in 1..Len(list) |->
     [label |-> list[i][name], count |-> list[i].count,
      occurrences |-> [k \in 1..Len(list[i].occurrences) |->
                         [filename |-> list[i].occurrences[k].filename,
                          date |-> list[i].occurrences[k].date]]]]

\* C17: the repeated-risk list of analyze_risks and detect_emerging_themes
\* with threshold 2 are the same mechanism: on the same labels they give the
\* same labels, counts and order (ties included) and the same sequence of
\* (filename, date) occurrences for each label.
C17_SameMechanism ==
  out.fn = "analyze_risks" =>
    Outline(out.ret.repeated_risks, "risk")
      = Outline(DetectEmergingThemes(RisksAsTopics(Loaded), 2), "theme")

\* analyze_risks has returned repeated risks with a tie
C17_Witness ==
  /\ out.fn = "analyze_risks"
  /\ Len(out.ret.repeated_risks) >= 3
  /\ out.ret.repeated_risks[1].count > out.ret.repeated_risks[2].count
  /\ out.ret.repeated_risks[2].count = out.ret.repeated_risks[3].count

\* the stored action items whose status reads as st
ItemsWithStatus(ins, st) ==
  {pos \in Occurrences(ins, "action_items") :
     Get(LabelAt(ins, "action_items", pos), "status", "open") = st}

\* C18: completion_rate of track_action_items is 0 when there are no action
\* items (no division by zero happens), and otherwise 100 * closed / total,
\* a value between 0 and 100.
C18_CompletionRate ==
  out.fn = "track_action_items" =>
    LET rate == out.ret.completion_rate
        total == Cardinality(Occurrences(Loaded, "action_items"))
        closed == Cardinality(ItemsWithStatus(Loaded, "closed"))
    IN /\ rate.den # 0
       /\ out.ret.total_action_items = total
       /\ total = 0 => rate.num = 0
       /\ total # 0 => rate.num * total = 100 * closed * rate.den
       /\ 0 <= rate.num /\ rate.num <= 100 * rate.den

\* track_action_items has run on items some of which, not all, are closed
C18_Witness ==
  /\ out.fn = "track_action_items"
  /\ out.ret.total_action_items >= 3
  /\ out.ret.closed_items >= 1
  /\ out.ret.closed_items < out.ret.total_action_items
  /\ out.ret.completion_rate.num > 0

\* C19: track_action_items partitions the action items: open_items plus
\* closed_items equals total_action_items, which is the length of
\* all_items, and open_items_list holds exactly the items that are not
\* closed.
C19_OpenClosedPartition ==
  out.fn = "track_action_items" =>
    LET NotClosed(item) == item.status # "closed" IN
    /\ out.ret.total_action_items = Len(out.ret.all_items)
    /\ out.ret.open_items + out.ret.closed_items = out.ret.total_action_items
    /\ out.ret.open_items_list = SelectSeq(out.ret.all_items, NotClosed)

\* the count by_owner reports under a name (0 when the name is not a key)
CountUnder(by_owner, name) ==
  IF \E i \in 1..Len(by_owner) : by_owner[i].key = name
  THEN (CHOOSE e \in {by_owner[i] : i \in 1..Len(by_owner)} : e.key = name).count
  ELSE 0

\* the stored action items that name no owner: no owner key, or a null
ItemsWithoutOwner(ins) ==
  {pos \in Occurrences(ins, "action_items") :
     Get(LabelAt(ins, "action_items", pos), "owner", PyNone) = PyNone}

\* C20: every action item without an owner, among them the items stored by
\* extraction with a null owner, is counted under 'Unassigned' in by_owner,
\* and the counts of by_owner sum to the total number of action items.
C20_UnassignedOwner ==
  out.fn = "track_action_items" =>
    /\ CountUnder(out.ret.by_owner, "Unassigned") = Cardinality(ItemsWithoutOwner(Loaded))
    /\ SumCounts(out.ret.by_owner, Len(out.ret.by_owner)) = out.ret.total_action_items

\* ------------------------------------------- claims on any list of records
DateParses(rec) == "date" \in DOMAIN rec /\ FromIsoFormat(ReplaceZ(rec.date)).ok

AllDatesParse(ins) == \A i \in 1..Len(ins) : DateParses(ins[i])

SeriesReturned == out.fn = "analyze_sentiment_over_time"

\* C21: when every record's date parses, with or without a zone suffix, the
\* sentiment series has one row per record, in non-decreasing date order,
\* each with the score +1, 0 or -1 of its sentiment.
C21_SentimentSeries ==
  (SeriesReturned /\ AllDatesParse(insights)) =>
    /\ ~out.ret.raised
    /\ Len(out.ret.rows) = Len(insights)
    /\ \A i, j \in 1..Len(out.ret.rows) :
         i < j => out.ret.rows[i].date.instant <= out.ret.rows[j].date.instant
    /\ \A i \in 1..Len(out.ret.rows) :
         out.ret.rows[i].sentiment_score =
           (CASE out.ret.rows[i].sentiment = "positive" -> 1
              [] out.ret.rows[i].sentiment = "negative" -> 0 - 1
              [] OTHER -> 0)

\* C22: a record whose date is missing, null or no timestamp is left out of
\* the sentiment series, and the call returns what it returns on the list
\* without that record.
C22_BadDateLeftOut ==
  SeriesReturned => out.ret = AnalyzeSentimentOverTime(SelectSeq(insights, DateParses))

Aggregations ==
  {"analyze_topics", "analyze_risks", "analyze_opportunities", "track_action_items",
   "detect_emerging_themes", "generate_executive_summary", "get_dashboard_data"}

\* what the function named fn returns on the list ins
Result(fn, arg, ins) ==
  CASE fn = "analyze_topics" -> AnalyzeTopics(ins)
    [] fn = "analyze_risks" -> AnalyzeRisks(ins)
    [] fn = "analyze_opportunities" -> AnalyzeOpportunities(ins)
    [] fn = "analyze_sentiment_over_time" -> AnalyzeSentimentOverTime(ins)
    [] fn = "track_action_items" -> TrackActionItems(ins)
    [] fn = "detect_emerging_themes" -> DetectEmergingThemes(ins, arg)
    [] fn = "generate_executive_summary" -> GenerateExecutiveSummary(ins, "recent")
    [] fn = "get_dashboard_data" -> GetDashboardData(ins)

\* the call ended with an exception
Raised == out.fn \in {"analyze_sentiment_over_time", "get_dashboard_data"} /\ out.ret.raised

KnownFields ==
  {"topics", "risks", "opportunities", "action_items", "sentiment", "date", "filename"}
SequenceFields == {"topics", "risks", "opportunities", "action_items"}

\* the record with its unknown fields removed, an empty sequence for each
\* missing label or action-item field and neutral for a missing sentiment
Filled(rec) ==
  [f \in (DOMAIN rec \cap KnownFields) \cup SequenceFields \cup {"sentiment"} |->
     IF f \in DOMAIN rec THEN rec[f]
     ELSE IF f = "sentiment" THEN "neutral" ELSE <<>>]

FilledAll(ins) == [i \in 1..Len(ins) |-> Filled(ins[i])]

\* a date that is present is null, or two dates that are present and parse
\* are one with and one without a zone
PresentDatesFail(ins) ==
  \/ \E i \in 1..Len(ins) : "date" \in DOMAIN ins[i] /\ ins[i].date.text = PyNone
  \/ \E i, j \in 1..Len(ins) :
       /\ DateParses(ins[i])
       /\ DateParses(ins[j])
       /\ (ins[i].date.suffix = "") # (ins[j].date.suffix = "")

\* C23: a record that lacks fields or carries unknown ones makes no
\* aggregation function fail: each returns what it returns when the missing
\* label and action-item fields are empty sequences, the missing sentiment is
\* neutral and the unknown fields are gone, and a call raises only for dates
\* that are present (the cases of C21 and C22).
C23_MissingFields ==
  out.fn \in Aggregations =>
    /\ out.ret = Result(out.fn, out.arg, FilledAll(insights))
    /\ Raised => PresentDatesFail(insights)

C23_Witness ==
  /\ out.fn = "get_dashboard_data"
  /\ ~out.ret.raised
  /\ {RecordA, RecordBare, RecordPartial} \subseteq {insights[i] : i \in 1..Len(insights)}

HasHeading(lines, name) ==
  \E i \in 1..Len(lines) : lines[i].kind = "heading" /\ lines[i].name = name

\* line i is a heading with nothing under it: the text ends there, or the
\* next line is a heading of the same or of a higher level
BareHeading(lines, i) ==
  /\ lines[i].kind = "heading"
  /\ \/ i = Len(lines)
     \/ lines[i + 1].kind = "heading" /\ lines[i + 1].level <= lines[i].level

\* C24: the summary of an empty list is the text 'No transcripts available
\* for summary.'; the summary of any other list has the section of topics,
\* emerging themes, repeated risks, opportunities and action items exactly
\* when that aggregate is not empty, and no heading with nothing under it.
C24_SummarySections ==
  out.fn = "generate_executive_summary" =>
    IF insights = <<>> THEN out.ret = <<Text(NoTranscriptsText)>>
    ELSE
      /\ HasHeading(out.ret, "Most Discussed Topics")
           <=> AnalyzeTopics(insights).top_topics # <<>>
      /\ HasHeading(out.ret, "Emerging Themes (2+ mentions)")
           <=> DetectEmergingThemes(insights, SummaryThreshold) # <<>>
      /\ HasHeading(out.ret, "Repeated Risks (Requires Attention)")
           <=> AnalyzeRisks(insights).repeated_risks # <<>>
      /\ HasHeading(out.ret, "Top Opportunities")
           <=> AnalyzeOpportunities(insights).top_opportunities # <<>>
      /\ HasHeading(out.ret, "Action Items")
           <=> TrackActionItems(insights).all_items # <<>>
      /\ \A i \in 1..Len(out.ret) : ~BareHeading(out.ret, i)

Reorderings(ins) ==
  LET perms == {p \in [1..Len(ins) -> 1..Len(ins)] : \A i, j \in 1..Len(ins) : p[i] = p[j] => i = j}
  IN {[i \in 1..Len(ins) |-> ins[p[i]]] : p \in perms}

SetOf(list) == {list[i] : i \in 1..Len(list)}

\* the rows as a multiset of (date, sentiment_score, filename): each point
\* with the number of rows that carry it
Points(rows) ==
  LET Point(r) == <<r.date, r.sentiment_score, r.filename>> IN
  {<<Point(rows[i]), Cardinality({j \in 1..Len(rows) : Point(rows[j]) = Point(rows[i])})>> :
     i \in 1..Len(rows)}

\* the part of a result that C26 is about, with every table as a set
Aggregates(fn, ret) ==
  CASE fn = "analyze_topics" ->
         <<ret.total_unique_topics, ret.total_mentions, SetOf(ret.topic_frequency),
           SetOf(ret.top_topics)>>
    [] fn = "analyze_risks" ->
         <<ret.total_unique_risks, ret.total_risk_mentions, SetOf(ret.top_risks),
           {<<r.risk, r.count>> : r \in SetOf(ret.repeated_risks)}>>
    [] fn = "analyze_opportunities" ->
         <<ret.total_unique_opportunities, ret.total_mentions, SetOf(ret.top_opportunities)>>
    [] fn = "track_action_items" ->
         <<ret.total_action_items, ret.open_items, ret.closed_items, ret.completion_rate,
           SetOf(ret.by_owner)>>
    [] fn = "detect_emerging_themes" -> <<{<<t.theme, t.count>> : t \in SetOf(ret)}>>
    [] fn = "analyze_sentiment_over_time" -> <<ret.raised, Points(ret.rows)>>

OrderFree ==
  {"analyze_topics", "analyze_risks", "analyze_opportunities", "track_action_items",
   "detect_emerging_themes", "analyze_sentiment_over_time"}

\* C26: on the same records in any other order each function returns the
\* same counts per label and totals, the same repeated risks and emerging
\* themes with their counts, the same action-item counts, completion rate
\* and counts by owner, and the same multiset of sentiment points.
C26_OrderIndependent ==
  out.fn \in OrderFree =>
    \A other \in Reorderings(insights) :
      Aggregates(out.fn, Result(out.fn, out.arg, other)) = Aggregates(out.fn, out.ret)

C26_Witness ==
  /\ out.fn = "analyze_risks"
  /\ Len(insights) = 3
  /\ insights[1] = RecordB
  /\ insights[2] = RecordUtc
  /\ insights[3] = RecordA
  /\ out.ret.repeated_risks # <<>>

\* --------------------------------------------- claims on concurrent callers
\* every thread has made its calls and returned
AllReturned == \A t \in CallerIds : callers[t].pc = "idle" /\ callers[t].calls = MaxCalls

TextOfFile(fname) == DocumentOf(CHOOSE t \in CallerIds : DocumentOf(t).filename = fname).text

\* position by position, the vector is that of the document whose metadata
\* sits there, and the metadata carries the position as doc_id
Aligned(store) ==
  /\ Len(store.index.vecs) = Len(store.metadata)
  /\ \A i \in 1..Len(store.metadata) :
       /\ store.metadata[i].doc_id = i - 1
       /\ i <= Len(store.index.vecs)
       /\ store.index.vecs[i] = GenerateEmbedding(provider, TextOfFile(store.metadata[i].filename))

\* C27: when two threads have run add_document on the shared store, in any
\* interleaving, initialize_store has constructed exactly one EmbeddingStore
\* and in it vector i, metadata i and doc_id i belong to the same document.
C27_ConcurrentAdds ==
  AllReturned => (Len(stores) = 1 /\ \A k \in 1..Len(stores) : Aligned(stores[k]))

\* ------------------------------------------------ claims on the upload page
Indexed(fname) == \E i \in 1..Len(metadata) : metadata[i].filename = fname

HasInsights(fname) == \E i \in 1..Len(insights) : insights[i].filename = fname

Filenames == {f.filename : f \in UploadedFiles}

\* C28: after any runs of the upload page, a filename has an entry in the
\* vector index exactly when an insight record is stored for it.
C28_IndexedIffInsights == \A fname \in Filenames : Indexed(fname) <=> HasInsights(fname)

\* C29: after any runs of the upload page the vector index holds at most one
\* entry per filename, and as many entries as there are indexed filenames.
C29_OneEntryPerFilename ==
  /\ \A i, j \in 1..Len(metadata) : metadata[i].filename = metadata[j].filename => i = j
  /\ Len(index.vecs) = Cardinality({metadata[i].filename : i \in 1..Len(metadata)})

\* the run that has just ended rejected its upload as a duplicate
Rejected(u) == ~u.success /\ u.is_duplicate

\* C30: an upload with the hash of a transcript stored under another name is
\* rejected as a duplicate, however the directory is listed, and a rejected
\* upload leaves the stored transcript files as they were.
C30_DuplicateRejected ==
  [][clock' # clock =>
       /\ (\E f \in transcripts : /\ FileHash(f.content) = FileHash(upload'.content)
                                  /\ f.filename # upload'.filename)
            => Rejected(upload')
       /\ Rejected(upload') => transcripts' = transcripts]_vars

====
